---- MODULE Spec2Model ----
(***************************************************************************)
(* V2EXMonitor (src/main.py): the incremental monitoring pipeline.         *)
(*                                                                         *)
(* One process polls the feed, filters the posts by keyword, decides which *)
(* posts are new work against processed_posts, obtains the content,        *)
(* notifies, and commits a record to processed_posts and to the storage    *)
(* file.  The process may be killed at any point and started again; the    *)
(* storage file is all that survives.                                      *)
(*                                                                         *)
(* A text is a sequence of characters.  A dict is the sequence of its      *)
(* items in insertion order (Python keeps it, and json.dump writes it).    *)
(* A record keeps the fields the pipeline reads back: key, last_modified   *)
(* (title and url are written and never read).                             *)
(***************************************************************************)
EXTENDS Integers, Sequences, FiniteSets

\* ------------------------------------------------------------------ bounds

\* a feed snapshot holds at most MaxPosts posts
MaxPosts == 2
\* the run loop is followed for MaxCycles poll cycles
MaxCycles == 2
\* a KEYWORDS value other than the default has at most MaxKeywordsLen characters
MaxKeywordsLen == 2
\* a text handed to _check_keywords on its own has at most MaxTextLen characters
MaxTextLen == 2

\* post["id"]: the identifiers the feed may report (integers)
PostIds == {7, 42}

\* post["last_modified"]: the epoch seconds the feed may report
LastModifiedValues == {1000, 1500}

\* ------------------------------------------------------------------ texts

\* os.getenv("KEYWORDS", ...): a comma-separated list; this is the default
KEYWORDS == <<"k", ",", "c", "d">>

VARIABLES
    env_keywords,      \* what os.getenv("KEYWORDS", KEYWORDS) returned
    checked_text,      \* the text last handed to _check_keywords on its own
    accepted           \* its answer: "-" | "accepted" | "rejected"

\* str.split(","): the pieces between the commas, empty pieces kept
RECURSIVE Split(_)
Split(s) ==
    IF \A n \in 1..Len(s) : s[n] # ","
    THEN <<s>>
    ELSE LET c == CHOOSE n \in 1..Len(s) :
                      s[n] = "," /\ \A m \in 1..(n - 1) : s[m] # ","
         IN  <<SubSeq(s, 1, c - 1)>> \o Split(SubSeq(s, c + 1, Len(s)))

\* self.keywords
keywords == Split(env_keywords)

\* keyword in text: substring test
Contains(kw, text) ==
    \E s \in 0..(Len(text) - Len(kw)) : SubSeq(text, s + 1, s + Len(kw)) = kw

\* _check_keywords
CheckKeywords(text) ==
    \E n \in 1..Len(keywords) : Contains(keywords[n], text)

\* the titles and contents of the feed's posts
TextPlain == <<"c", "x", "d">>
TextCode == <<"x", "k">>
PostTexts == { <<TextPlain, TextPlain>>, <<TextPlain, TextCode>> }

\* a variant of lines 204-209: no keyword test
PostMatchesAlways(post) == TRUE

\* the keyword test of process_posts: title or content
PostMatches(post) ==
    CheckKeywords(post.title) \/ CheckKeywords(post.content)

\* ------------------------------------------------------------------ str(id)

\* str(n) of a non-negative integer: its decimal digits
RECURSIVE ToStr(_)
ToStr(n) == IF n < 10 THEN <<n>> ELSE ToStr(n \div 10) \o <<n % 10>>

\* post_id = str(post["id"])
PostKey(id) == ToStr(id)

\* ------------------------------------------------------------------ dict

DictHas(d, k) == \E n \in 1..Len(d) : d[n].key = k

DictGet(d, k) == d[CHOOSE n \in 1..Len(d) : d[n].key = k].last_modified

DictKeys(d) == { d[n].key : n \in 1..Len(d) }

\* d[k] = {"last_modified": v, ...}: in place when k is present, appended otherwise
DictSet(d, k, v) ==
    LET item == [key |-> k, last_modified |-> v]
    IN  IF DictHas(d, k)
        THEN [n \in 1..Len(d) |-> IF d[n].key = k THEN item ELSE d[n]]
        ELSE Append(d, item)

\* ------------------------------------------------------------------ storage file

\* The file's text as tokens: "{", one token per item, "}".
TokOpen == [tok |-> "{", key |-> <<>>, last_modified |-> 0]
TokClose == [tok |-> "}", key |-> <<>>, last_modified |-> 0]
TokItem(item) ==
    [tok |-> "item", key |-> item.key, last_modified |-> item.last_modified]

\* json.dump(self.processed_posts, f)
JsonDump(d) == <<TokOpen>> \o [n \in 1..Len(d) |-> TokItem(d[n])] \o <<TokClose>>

\* json.load accepts the text
JsonValid(t) ==
    /\ Len(t) >= 2
    /\ t[1] = TokOpen
    /\ t[Len(t)] = TokClose
    /\ \A n \in 2..(Len(t) - 1) : t[n].tok = "item"

\* json.load(f) of an accepted text
JsonLoad(t) ==
    [n \in 1..(Len(t) - 2) |->
        [key |-> t[n + 1].key, last_modified |-> t[n + 1].last_modified]]

\* what a write that stops early leaves: the file was truncated by open(.., "w")
PartialWrites(t) == { SubSeq(t, 1, n) : n \in 0..(Len(t) - 1) }

NoFile == [exists |-> FALSE, readable |-> TRUE, data |-> <<>>]
FileOf(t) == [exists |-> TRUE, readable |-> TRUE, data |-> t]

\* open(.., "w") and a write of t: a file that exists keeps its mode
Rewritten(f, t) == [exists |-> TRUE, readable |-> f.readable, data |-> t]

\* a variant of _load_processed_posts: __init__ starts from {} and reads nothing
LoadProcessedPostsNothing(f) == <<>>

\* _load_processed_posts: open raises on a file the process may not read,
\* json.load on a text that is no JSON document; both end in the except clause
LoadProcessedPosts(f) ==
    IF f.exists /\ f.readable /\ JsonValid(f.data) THEN JsonLoad(f.data)
    ELSE <<>>

\* a variant of _load_processed_posts: no try/except around open and json.load
LoadRaisesUncaught(f) == f.exists /\ (~f.readable \/ ~JsonValid(f.data))

\* _load_processed_posts raises to __init__: never, the except clause of
\* lines 83-85 catches every Exception
LoadRaises(f) == FALSE

\* ------------------------------------------------------------------ process_posts

\* a variant of lines 211-213: "<" where the code has "<="
AlreadyProcessedStrict(d, k, lm) ==
    IF DictHas(d, k) THEN lm < DictGet(d, k) ELSE FALSE

\* a variant of lines 211-213: "==" where the code has "<="
AlreadyProcessedSameOnly(d, k, lm) ==
    IF DictHas(d, k) THEN lm = DictGet(d, k) ELSE FALSE

\* lines 211-213: the post is skipped when its key is present with a stored
\* last_modified that the post's does not exceed
AlreadyProcessed(d, k, lm) ==
    IF DictHas(d, k) THEN lm <= DictGet(d, k) ELSE FALSE

\* the network calls that end by themselves when the collaborator never
\* answers: the feed request is given timeout=60; the page fetch (newspaper)
\* and the extraction (OpenAI client) run under their library's default
\* timeout.  requests.post of the scrape and of bark, and smtplib.SMTP of the
\* email transport, are given none and wait for ever.
Bounded(call) == call \in {"feed", "page", "extract"}

\* a variant of lines 225-234: the else branch with its continue is missing
ObtainContentNoCheck(scrape, article) ==
    IF scrape = "never" THEN "hang"
    ELSE IF article = "raise" THEN "raise" ELSE "content"

\* lines 225-234: "content" when there is content to go on with, "abandon" on
\* the continue, "raise" when Article.download/parse raises, "hang" when the
\* scrape's requests.post never returns
ObtainContent(scrape, article) ==
    IF scrape = "never" THEN "hang"
    ELSE IF scrape = "content" THEN "content"
    ELSE IF article = "text" THEN "content"
    ELSE IF article = "empty" THEN "abandon"
    ELSE "raise"

\* Optional[str]: None, or a text
None == [some |-> FALSE, text |-> <<>>]
Some(t) == [some |-> TRUE, text |-> t]

\* response.choices[0].message.content for the answers of the extraction
\* service: codes (the model marks them with asterisks), or nothing
AnswerText(answer) == IF answer = "codes" THEN <<"*", "A", "*">> ELSE <<>>

\* _extract_codes_with_ai: the answer's text, None when the call raises
ExtractCodesWithAi(answer) ==
    IF answer = "fails" THEN None ELSE Some(AnswerText(answer))

\* a variant of line 237: no `or ""`
OrEmptyMissing(opt) == opt

\* line 237: x or ""
OrEmpty(opt) == IF ~opt.some \/ opt.text = <<>> THEN Some(<<>>) ELSE opt

\* line 246: extracted_info.replace("*", "")
StripStars(t) == SelectSeq(t, LAMBDA c : c # "*")

\* _send_notification: the transport the configuration selects, "none" for a
\* NOTIFICATION_TYPE that is neither bark nor email
SelectTransport(ntype) ==
    IF ntype = "bark" THEN "bark"
    ELSE IF ntype = "email" THEN "email"
    ELSE "none"

\* a variant of the transports: no try/except around the call
TransportCallPropagates(result) ==
    IF result = "never" THEN "hangs"
    ELSE IF result = "fail" THEN "raises" ELSE "returns"

\* _send_bark_notification / _send_email_notification: what the call does to
\* its caller when the transport call ends in `result`, or never ends
TransportCall(result) == IF result = "never" THEN "hangs" ELSE "returns"

\* a variant of lines 251-255: a record that exists is left as it is
CommitRecordKeepFirst(d, k, lm) == IF DictHas(d, k) THEN d ELSE DictSet(d, k, lm)

\* a variant of lines 251-255: nothing is stored
CommitRecordLost(d, k, lm) == d

\* a variant of lines 251-255: the record takes the latest time the feed
\* reports, not the post's own last_modified
CommitRecordLatest(d, k, lm) ==
    DictSet(d, k, CHOOSE m \in LastModifiedValues :
                      \A n \in LastModifiedValues : n <= m)

\* lines 251-255
CommitRecord(d, k, lm) == DictSet(d, k, lm)

\* ------------------------------------------------------------------ state

VARIABLES
    pc,                \* "idle" | "loop" | "commit" | "hung" | "down"
                       \* ("exited": the process has ended by an exception)
    notification_type, \* os.getenv("NOTIFICATION_TYPE")
    processed_posts,   \* self.processed_posts
    file,              \* the storage file
    posts,             \* the feed snapshot of the current (or last) cycle
    i,                 \* the position of process_posts in posts
    step,              \* what the last loop iteration did
    called,            \* <<key, last_modified>> ever passed to _send_notification
    calledRun,         \* the same, since the process started
    delivered,         \* keys with a transport call that succeeded
    replay,            \* "no" | "clean" | "unclean": the current cycle replays the
                       \* previous cycle's snapshot, which that cycle notified
                       \* post by post ("clean") or not
    cycMissed,         \* the current cycle left a matching post without notifying it
    cycles,            \* poll cycles started so far
    request            \* the last request sent to the feed

\* what the pipeline leaves alone: the configured keywords, and the answers
\* of _check_keywords on its own
filter == <<env_keywords, checked_text, accepted>>

vars == <<env_keywords, checked_text, accepted,
          pc, notification_type, processed_posts, file, posts, i, step,
          called, calledRun, delivered, replay, cycMissed, cycles, request>>

Posts ==
    { [id |-> id, last_modified |-> lm, title |-> t[1], content |-> t[2]] :
        id \in PostIds, lm \in LastModifiedValues, t \in PostTexts }

\* feed snapshots: identifiers are unique within a feed
Feeds ==
    UNION { { f \in [1..n -> Posts] :
                \A a, b \in 1..n : a # b => f[a].id # f[b].id } :
            n \in 0..MaxPosts }

NoStep == [result |-> "none", key |-> <<>>, last_modified |-> 0,
           scrape |-> "-", article |-> "-", extract |-> "-", info |-> <<>>,
           transport |-> "-", send |-> "-"]

\* ------------------------------------------------------------------ _get_latest_posts

\* os.getenv("V2EX_API_URL"): a URL is its address and its query parameters
V2EX_API_URL == [address |-> "V2EX_API_URL", query |-> <<>>]

\* f"{url}?t={value}"
WithT(url, value) ==
    [url EXCEPT !.query = Append(@, [name |-> "t", value |-> value])]

\* int(time.time() * 1000), the clock read in seconds
EpochMs(seconds) == seconds * 1000

\* the headers of lines 106-110
NoCacheHeaders ==
    { [name |-> "Cache-Control", value |-> "no-store"],
      [name |-> "Pragma", value |-> "no-cache"],
      [name |-> "Expires", value |-> "0"] }

\* lines 102-112: url is built with the parameter t, and requests.get is
\* called with os.getenv("V2EX_API_URL")
FeedRequest(now) ==
    LET url == WithT(V2EX_API_URL, now)
    IN  [url |-> V2EX_API_URL, headers |-> NoCacheHeaders]

\* no request yet
NoRequest == [url |-> [address |-> "", query |-> <<>>], headers |-> {}]

\* V2EXMonitor() before run(): nothing polled, nothing stored
Start ==
    /\ pc = "idle"
    /\ notification_type \in {"bark", "email", "sms"}
    /\ processed_posts = <<>>
    /\ file = NoFile
    /\ posts = <<>>
    /\ i = 1
    /\ step = NoStep
    /\ called = {}
    /\ calledRun = {}
    /\ delivered = {}
    /\ replay = "no"
    /\ cycMissed = FALSE
    /\ cycles = 0
    /\ checked_text = <<>>
    /\ accepted = "-"
    /\ request = NoRequest

\* the monitor under the default KEYWORDS
Init ==
    /\ env_keywords = KEYWORDS
    /\ Start


\* ------------------------------------------------------------------ run / process_posts

\* posts = self._get_latest_posts(): a snapshot, or [] when the request fails
Poll ==
    /\ pc = "idle"
    /\ cycles < MaxCycles
    /\ cycles' = cycles + 1
    /\ \E f \in Feeds :
        /\ posts' = f
        /\ replay' = IF f # <<>> /\ f = posts
                     THEN (IF cycMissed THEN "unclean" ELSE "clean")
                     ELSE "no"
    /\ pc' = "loop"
    /\ i' = 1
    /\ step' = NoStep
    /\ cycMissed' = FALSE
    /\ request' = FeedRequest(EpochMs(cycles))   \* the clock: one second a cycle
    /\ UNCHANGED <<filter, notification_type, processed_posts, file, called,
                   calledRun, delivered>>

\* the extraction service answers with codes or with nothing, or the call raises
ExtractAnswers == {"codes", "empty", "fails"}

\* what the collaborators of one iteration do: the scrape answers, or never
\* does; the page fetch is reached only after a scrape without content, the
\* extraction only with content (each of its answers after a scrape with
\* content, codes after a page fetch with text)
ContentPlans ==
    { <<"content", "-", e>> : e \in ExtractAnswers }
    \cup { <<"none", "text", "codes">> }
    \cup { <<"none", "empty", "-">>, <<"none", "raise", "-">> }
    \cup (IF Bounded("scrape") THEN {} ELSE { <<"never", "-", "-">> })

\* the transport call's end, "-" when no transport is called; a call that is
\* given a timeout ends as a failure when the transport never answers
SendResults(transport) ==
    IF transport = "none" THEN {"-"}
    ELSE {"ok", "fail"} \cup (IF Bounded(transport) THEN {} ELSE {"never"})

\* the iteration ends with continue
Continue(result, key, lm, plan) ==
    /\ step' = [NoStep EXCEPT !.result = result, !.key = key,
                              !.last_modified = lm,
                              !.scrape = plan[1], !.article = plan[2],
                              !.extract = plan[3]]
    /\ i' = i + 1
    /\ pc' = "loop"
    /\ cycMissed' = (cycMissed \/ result # "nomatch")
    /\ UNCHANGED <<called, calledRun, delivered>>

\* run() without its try/except: the exception ends the process
RaiseUncaught(result, key, lm, plan, transport, send) ==
    /\ step' = [NoStep EXCEPT !.result = result, !.key = key,
                              !.last_modified = lm,
                              !.scrape = plan[1], !.article = plan[2],
                              !.extract = plan[3],
                              !.transport = transport, !.send = send]
    /\ i' = 1
    /\ pc' = "exited"
    /\ cycMissed' = TRUE

\* an exception leaves process_posts; run() catches it and sleeps
Raise(result, key, lm, plan, transport, send) ==
    /\ step' = [NoStep EXCEPT !.result = result, !.key = key,
                              !.last_modified = lm,
                              !.scrape = plan[1], !.article = plan[2],
                              !.extract = plan[3],
                              !.transport = transport, !.send = send]
    /\ i' = 1
    /\ pc' = "idle"
    /\ cycMissed' = TRUE

\* a call of the iteration never returns: the process waits in it
Hang(key, lm, plan, transport, send) ==
    /\ step' = [NoStep EXCEPT !.result = "hung", !.key = key,
                              !.last_modified = lm,
                              !.scrape = plan[1], !.article = plan[2],
                              !.extract = plan[3],
                              !.transport = transport, !.send = send]
    /\ i' = i
    /\ pc' = "hung"
    /\ UNCHANGED cycMissed

\* lines 236-248: extraction, then _send_notification
Notify(key, lm, plan) ==
    LET transport == SelectTransport(notification_type)
        extracted_info == OrEmpty(ExtractCodesWithAi(plan[3]))
    IN  IF ~extracted_info.some
        THEN \* None.replace: AttributeError
             /\ Raise("extract_raised", key, lm, plan, "-", "-")
             /\ UNCHANGED <<called, calledRun, delivered>>
        ELSE
        \E send \in SendResults(transport) :
            /\ called' = called \cup {<<key, lm>>}
            /\ calledRun' = calledRun \cup {<<key, lm>>}
            /\ delivered' = IF send = "ok" THEN delivered \cup {key}
                            ELSE delivered
            /\ IF TransportCall(send) = "hangs"
               THEN Hang(key, lm, plan, transport, send)
               ELSE IF TransportCall(send) = "raises"
               THEN Raise("notify_raised", key, lm, plan, transport, send)
               ELSE /\ step' = [NoStep EXCEPT
                                  !.result = "notified", !.key = key,
                                  !.last_modified = lm,
                                  !.scrape = plan[1], !.article = plan[2],
                                  !.extract = plan[3],
                                  !.info = StripStars(extracted_info.text),
                                  !.transport = transport, !.send = send]
                    /\ i' = i
                    /\ pc' = "commit"
                    /\ UNCHANGED cycMissed

\* one iteration of the for loop, up to and including _send_notification
ExaminePost ==
    /\ pc = "loop"
    /\ i <= Len(posts)
    /\ LET post == posts[i]
           key == PostKey(post.id)
           lm == post.last_modified
       IN  IF ~PostMatches(post)
           THEN Continue("nomatch", key, lm, <<"-", "-", "-">>)
           ELSE IF AlreadyProcessed(processed_posts, key, lm)
           THEN Continue("notnew", key, lm, <<"-", "-", "-">>)
           ELSE \E plan \in ContentPlans :
                   LET got == ObtainContent(plan[1], plan[2])
                   IN  IF got = "abandon"
                       THEN Continue("abandoned", key, lm, plan)
                       ELSE IF got = "raise"
                       THEN /\ Raise("fetch_raised", key, lm, plan, "-", "-")
                            /\ UNCHANGED <<called, calledRun, delivered>>
                       ELSE IF got = "hang"
                       THEN /\ Hang(key, lm, plan, "-", "-")
                            /\ UNCHANGED <<called, calledRun, delivered>>
                       ELSE Notify(key, lm, plan)
    /\ UNCHANGED <<filter, request, notification_type, processed_posts, file, posts, replay,
                   cycles>>

\* how the write of _save_processed_posts ends: it succeeds, or open raises,
\* or json.dump raises after open has truncated the file
SaveOutcomes == {"written", "open_raises", "write_raises"}

\* the files an outcome may leave
FilesAfter(outcome, d, f) ==
    IF outcome = "written" THEN {Rewritten(f, JsonDump(d))}
    ELSE IF outcome = "open_raises" THEN {f}
    ELSE { Rewritten(f, t) : t \in PartialWrites(JsonDump(d)) }

\* _save_processed_posts: the files it may leave
SaveProcessedPosts(d, f) ==
    UNION { FilesAfter(outcome, d, f) : outcome \in SaveOutcomes }

\* a variant of _save_processed_posts: no try/except around the write
SaveCallPropagates(outcome) ==
    IF outcome = "written" THEN "returns" ELSE "raises"

\* _save_processed_posts: what the call does to its caller when the write
\* ends in `outcome`
SaveCall(outcome) == "returns"

\* lines 250-256: the record is stored and the file rewritten
Commit ==
    /\ pc = "commit"
    /\ LET d == CommitRecord(processed_posts, step.key, step.last_modified)
       IN  /\ processed_posts' = d
           /\ \E outcome \in SaveOutcomes :
                 /\ file' \in FilesAfter(outcome, d, file)
                 /\ IF SaveCall(outcome) = "raises"
                    THEN /\ step' = [step EXCEPT !.result = "save_raised"]
                         /\ i' = 1
                         /\ pc' = "idle"
                    ELSE /\ step' = [step EXCEPT !.result = "committed"]
                         /\ i' = i + 1
                         /\ pc' = "loop"
    /\ UNCHANGED <<filter, request, notification_type, posts, called, calledRun,
                   delivered, replay, cycMissed, cycles>>

\* the for loop is over: process_posts returns and run() sleeps
EndCycle ==
    /\ pc = "loop"
    /\ i > Len(posts)
    /\ pc' = "idle"
    /\ i' = 1
    /\ step' = NoStep
    /\ UNCHANGED <<filter, request, notification_type, processed_posts, file, posts, called,
                   calledRun, delivered, replay, cycMissed, cycles>>

\* ------------------------------------------------------------------ the process dies and starts again

\* what the process held in memory is gone
Down ==
    /\ pc' = "down"
    /\ processed_posts' = <<>>
    /\ posts' = <<>>
    /\ i' = 1
    /\ step' = NoStep
    /\ calledRun' = {}
    /\ replay' = "no"
    /\ cycMissed' = FALSE
    /\ UNCHANGED <<filter, request, notification_type, called, delivered, cycles>>

\* the process is killed outside a file write
Crash ==
    /\ pc \in {"idle", "loop", "commit", "hung"}
    /\ Down
    /\ UNCHANGED file

\* the process is killed inside _save_processed_posts, after open(.., "w")
CrashInSave ==
    /\ pc = "commit"
    /\ Down
    /\ file' \in { Rewritten(file, t) : t \in PartialWrites(JsonDump(
                      CommitRecord(processed_posts, step.key,
                                   step.last_modified))) }

\* while the process is down the file is made unreadable for it (its mode or
\* its owner is changed)
Protect ==
    /\ pc = "down"
    /\ file.exists
    /\ file.readable
    /\ file' = [file EXCEPT !.readable = FALSE]
    /\ UNCHANGED <<filter, request, pc, notification_type, processed_posts, posts, i,
                   step, called, calledRun, delivered, replay, cycMissed,
                   cycles>>

\* V2EXMonitor(): __init__ loads the file, run() starts
Restart ==
    /\ pc = "down"
    /\ IF LoadRaises(file)
       THEN /\ pc' = "exited"
            /\ UNCHANGED processed_posts
       ELSE /\ processed_posts' = LoadProcessedPosts(file)
            /\ pc' = "idle"
    /\ UNCHANGED <<filter, request, notification_type, file, posts, i, step, called, calledRun,
                   delivered, replay, cycMissed, cycles>>

Next ==
    \/ Poll
    \/ ExaminePost
    \/ Commit
    \/ EndCycle
    \/ Crash
    \/ CrashInSave
    \/ Protect
    \/ Restart

Spec == Init /\ [][Next]_vars

\* ------------------------------------------------------------------ the process left running

\* the steps of the process itself: run() is one thread, its sleep ends, and
\* nothing kills it
Run ==
    \/ Poll
    \/ ExaminePost
    \/ Commit
    \/ EndCycle

LiveSpec == Init /\ [][Run]_vars /\ WF_vars(Run)

\* ------------------------------------------------------------------ _check_keywords on its own

\* the characters of the KEYWORDS values and of the texts
KeywordChars == {"k", ","}
TextChars == {"k", "K", "x"}

\* the sequences over a set of characters, up to a length
SeqsUpTo(chars, len) == UNION { [1..n -> chars] : n \in 0..len }

\* the KEYWORDS values: the default, and the short ones, the empty one included
KeywordConfigs == {KEYWORDS} \cup SeqsUpTo(KeywordChars, MaxKeywordsLen)

\* the monitor under any KEYWORDS value
FilterInit ==
    /\ env_keywords \in KeywordConfigs
    /\ Start

\* self._check_keywords(t)
CheckKeywordsCall ==
    /\ \E t \in SeqsUpTo(TextChars, MaxTextLen) :
          /\ checked_text' = t
          /\ accepted' = IF CheckKeywords(t) THEN "accepted" ELSE "rejected"
    /\ UNCHANGED <<env_keywords, request, pc, notification_type, processed_posts, file,
                   posts, i, step, called, calledRun, delivered, replay,
                   cycMissed, cycles>>

FilterNext == CheckKeywordsCall

FilterSpec == FilterInit /\ [][FilterNext]_vars

\* ------------------------------------------------------------------ properties

\* the records a file holds: those of a text json.load accepts
PersistedIn(f) ==
    IF f.exists /\ f.readable /\ JsonValid(f.data) THEN JsonLoad(f.data)
    ELSE <<>>

\* the version the last iteration was about
StepVersion == <<step.key, step.last_modified>>

\* the step calls _send_notification
NotifyStep ==
    /\ pc = "loop"
    /\ step'.result \in {"notified", "notify_raised"}

\* the step is the commit of lines 250-256
CommitStep ==
    /\ pc = "commit"
    /\ pc' = "loop"

\* the last iteration went past the is-new check of lines 211-213
TreatedAsNew ==
    step.result \in {"abandoned", "fetch_raised", "notified", "notify_raised"}

\* C1: a keyword-matching post is treated as new exactly when its key is
\* absent from processed_posts or stored with a strictly smaller
\* last_modified; a post whose last_modified does not exceed the stored one
\* is never treated as new.  (processed_posts is still the mapping the
\* decision was taken against until the iteration commits.)
C1_IsNew ==
    (TreatedAsNew \/ step.result = "notnew") =>
        /\ TreatedAsNew <=>
              \/ ~DictHas(processed_posts, step.key)
              \/ DictGet(processed_posts, step.key) < step.last_modified
        /\ (/\ DictHas(processed_posts, step.key)
            /\ step.last_modified <= DictGet(processed_posts, step.key))
              => step.result = "notnew"

\* C1 witness: a matching post is skipped on an unchanged last_modified
C1_Witness ==
    /\ step.result = "notnew"
    /\ DictGet(processed_posts, step.key) = step.last_modified

C3_Original ==
    [][NotifyStep => <<step'.key, step'.last_modified>> \notin called]_vars

\* C3, amended: between a start of the process and its next crash, no
\* version is passed to _send_notification twice.
C3_AtMostOncePerRun ==
    [][NotifyStep => <<step'.key, step'.last_modified>> \notin calledRun]_vars

\* C3 witness: a post is notified a second time in one run, for another version
C3_Witness ==
    /\ pc = "commit"
    /\ \E v \in calledRun : v[1] = step.key /\ v[2] # step.last_modified

\* C4: no notification goes out for a post while the storage file holds a
\* record for its key with a last_modified the feed's does not exceed, so a
\* process that restarts on that file does not repeat it.
C4_NoRepeatAfterRestart ==
    pc = "commit" =>
        ~( /\ DictHas(PersistedIn(file), step.key)
           /\ step.last_modified <= DictGet(PersistedIn(file), step.key) )

\* C4 witness: after a restart, a post notified by the former process is
\* skipped on the record loaded from the file
C4_Witness ==
    /\ calledRun = {}
    /\ step.result = "notnew"
    /\ \E v \in called : v[1] = step.key /\ step.last_modified <= v[2]
    /\ DictHas(PersistedIn(file), step.key)

\* the iteration at hand is about a matching post that has a record with a
\* smaller last_modified, it obtains content, and its calls return
EditExamined ==
    /\ pc = "loop"
    /\ i <= Len(posts)
    /\ PostMatches(posts[i])
    /\ DictHas(processed_posts, PostKey(posts[i].id))
    /\ DictGet(processed_posts, PostKey(posts[i].id)) < posts[i].last_modified
    /\ step'.key = PostKey(posts[i].id)
    /\ step'.result \notin {"none", "abandoned", "fetch_raised", "hung"}

\* C5: a matching post that has a record and comes back with a larger
\* last_modified is notified once when its content is obtained, and the
\* commit that follows stores the new last_modified.
C5_Edit ==
    [][ /\ EditExamined =>
              /\ step'.result = "notified"
              /\ step'.last_modified = posts[i].last_modified
              /\ pc' = "commit"
              /\ <<step'.key, step'.last_modified>> \notin calledRun
              /\ calledRun' = calledRun \cup {<<step'.key, step'.last_modified>>}
        /\ CommitStep =>
              /\ DictHas(processed_posts', step.key)
              /\ DictGet(processed_posts', step.key) = step.last_modified
      ]_vars

\* C5 witness: the edit of a post notified before is committed
C5_Witness ==
    /\ step.result = "committed"
    /\ \E v \in calledRun : v[1] = step.key /\ v[2] < step.last_modified
    /\ DictGet(processed_posts, step.key) = step.last_modified

Keys == { PostKey(id) : id \in PostIds }

\* C6, as claimed: between iterations, a key has a record exactly when a
\* notification for it has been delivered.
C6_Original ==
    pc \in {"idle", "loop"} =>
        \A k \in Keys : DictHas(processed_posts, k) <=> k \in delivered

\* C6, amended: a record exists, in processed_posts or in the storage file,
\* only for a version that has been passed to _send_notification.
C6_RecordOnlyAfterNotify ==
    /\ \A n \in 1..Len(processed_posts) :
          <<processed_posts[n].key, processed_posts[n].last_modified>> \in called
    /\ \A n \in 1..Len(PersistedIn(file)) :
          <<PersistedIn(file)[n].key,
            PersistedIn(file)[n].last_modified>> \in called

\* C6 witness: a record of a post no notification of which was delivered
C6_Witness ==
    /\ pc = "idle"
    /\ \E k \in Keys : DictHas(processed_posts, k) /\ k \notin delivered

\* C7: while the process runs, no stored last_modified decreases and no
\* record disappears; a commit replaces a stored value by a strictly larger
\* one; and the stored value is at least every last_modified notified in
\* this run (the version in flight is stored by the commit that follows the
\* return of the transport call).
C7_Monotonic ==
    /\ [][ /\ (pc # "down" /\ pc' # "down") =>
                 \A k \in DictKeys(processed_posts) :
                     /\ DictHas(processed_posts', k)
                     /\ DictGet(processed_posts', k) >= DictGet(processed_posts, k)
           /\ (CommitStep /\ DictHas(processed_posts, step.key)) =>
                 DictGet(processed_posts', step.key)
                     > DictGet(processed_posts, step.key)
         ]_vars
    /\ [](\A v \in calledRun :
             \/ pc \in {"commit", "hung"} /\ v = StepVersion
             \/ /\ DictHas(processed_posts, v[1])
                /\ DictGet(processed_posts, v[1]) >= v[2])

\* C7 witness: a stale version of a post is skipped, the larger value stays
C7_Witness ==
    /\ step.result = "notnew"
    /\ DictGet(processed_posts, step.key) > step.last_modified
    /\ <<step.key, DictGet(processed_posts, step.key)>> \in calledRun

\* C8, as claimed: a crash loses at most the record of the post in flight:
\* every other record that the file would load before the crash, it loads
\* after it.
C8_CrashKeepsCommitted ==
    [][ (pc # "down" /\ pc' = "down") =>
            \A k \in DictKeys(PersistedIn(file)) :
                \/ pc = "commit" /\ k = step.key
                \/ /\ DictHas(PersistedIn(file'), k)
                   /\ DictGet(PersistedIn(file'), k)
                         >= DictGet(PersistedIn(file), k)
      ]_vars

\* C9: after a scrape without content the page fetch is attempted; when it
\* yields no text either, the iteration sends no notification, leaves
\* processed_posts and the file as they are, and the post is still new.
C9_Fallback ==
    [][ (step' # step /\ step'.scrape = "none") =>
            /\ step'.article # "-"
            /\ step'.article \in {"empty", "raise"} =>
                  /\ step'.result \in {"abandoned", "fetch_raised"}
                  /\ pc' # "commit"
                  /\ called' = called
                  /\ delivered' = delivered
                  /\ processed_posts' = processed_posts
                  /\ file' = file
                  /\ ~AlreadyProcessed(processed_posts', step'.key,
                                       step'.last_modified)
      ]_vars

\* C9 witness: a post is abandoned after both fetches gave nothing
C9_Witness ==
    /\ step.result = "abandoned"
    /\ step.scrape = "none"
    /\ step.article = "empty"
    /\ pc = "loop"

\* C10: a transport call that fails (or succeeds) returns to process_posts:
\* the iteration goes on to the commit, and the commit stores the record.
C10_TransportFailureSwallowed ==
    /\ step.send \in {"ok", "fail"} =>
          /\ step.result \in {"notified", "committed"}
          /\ pc \in {"commit", "loop"}
    /\ step.result = "notified" => pc = "commit"
    /\ step.result = "committed" =>
          /\ DictHas(processed_posts, step.key)
          /\ DictGet(processed_posts, step.key) = step.last_modified

\* C10 witness: the record of a post is committed after its transport call failed
C10_Witness ==
    /\ step.result = "committed"
    /\ step.send = "fail"
    /\ DictHas(processed_posts, step.key)
    /\ step.key \notin delivered

\* C11, as claimed: an exception while one post is handled does not end the
\* cycle: when the snapshot has later posts, the for loop stands at the next
\* of them after the failure.
C11_FailureIsolated ==
    \A n \in 1..(Len(posts) - 1) :
        (/\ step.result \in {"fetch_raised", "notify_raised"}
         /\ PostKey(posts[n].id) = step.key) =>
            /\ pc = "loop"
            /\ i = n + 1

\* the keywords a KEYWORDS value lists: the pieces between its commas, and
\* none when the value is empty
Listed(value) ==
    IF value = <<>> THEN {}
    ELSE { Split(value)[n] : n \in 1..Len(Split(value)) }

\* C12, as claimed: _check_keywords accepts a text exactly when one of the
\* listed keywords occurs in it as a substring, so under an empty KEYWORDS
\* value it accepts no text.
C12_Filter ==
    accepted # "-" =>
        (accepted = "accepted" <=>
            \E kw \in Listed(env_keywords) : Contains(kw, checked_text))

\* an exception has left process_posts in the current cycle
Escaped == step.result \in {"fetch_raised", "notify_raised"}

\* C13: an exception that leaves process_posts is caught by run(), which
\* sleeps; the process left running then starts the next poll cycle, at the
\* head of a new snapshot (as long as the cycle is short of the last one
\* followed).
C13_NextCycle ==
    /\ [](Escaped => pc = "idle")
    /\ (Escaped /\ cycles < MaxCycles) ~> (pc = "loop" /\ step = NoStep)

\* C13 witness: run() sleeps after an exception of the page fetch, with a
\* poll cycle still to come
C13_Witness ==
    /\ step.result = "fetch_raised"
    /\ pc = "idle"
    /\ cycles < MaxCycles

\* C14, as claimed: when a collaborator never answers a call of the
\* iteration, the call ends as a failure and the process goes on: it does
\* not wait in the call.
C14_NoStall ==
    (step.scrape = "never" \/ step.send = "never") => pc # "hung"

\* C15: when the extraction call raises or answers with nothing, for a new
\* matching post whose content was obtained, the iteration goes on:
\* _send_notification is called for the post with an empty extraction part
\* in the body, and once the transport call has returned the record is
\* committed with the post's last_modified.
C15_EmptyExtraction ==
    step.extract \in {"fails", "empty"} =>
        /\ StepVersion \in calledRun
        /\ step.result \in {"notified", "committed", "hung"}
        /\ step.result = "hung" => step.send = "never"
        /\ step.result = "notified" => pc = "commit" /\ step.info = <<>>
        /\ step.result = "committed" =>
              /\ step.info = <<>>
              /\ pc = "loop"
              /\ DictHas(processed_posts, step.key)
              /\ DictGet(processed_posts, step.key) = step.last_modified

\* C15 witness: a record is committed after an extraction call that raised
C15_Witness ==
    /\ step.extract = "fails"
    /\ step.result = "committed"
    /\ step.info = <<>>
    /\ StepVersion \in called
    /\ DictGet(processed_posts, step.key) = step.last_modified

\* the post under the for loop fails the keyword match, or matches and is
\* not new
NotWork(post) ==
    \/ ~(CheckKeywords(post.title) \/ CheckKeywords(post.content))
    \/ /\ DictHas(processed_posts, PostKey(post.id))
       /\ post.last_modified <= DictGet(processed_posts, PostKey(post.id))

\* C16: the iteration over a post that fails the keyword match, or that
\* matches and is not new, fetches nothing, extracts nothing, notifies
\* nothing and commits nothing: it leaves processed_posts and the file as
\* they are and goes to the next post.
C16_Frame ==
    [][ (/\ pc = "loop"
         /\ i <= Len(posts)
         /\ pc' # "down"
         /\ NotWork(posts[i])) =>
            /\ step'.result \in {"nomatch", "notnew"}
            /\ step'.key = PostKey(posts[i].id)
            /\ step'.scrape = "-"
            /\ step'.article = "-"
            /\ step'.extract = "-"
            /\ step'.transport = "-"
            /\ step'.send = "-"
            /\ called' = called
            /\ delivered' = delivered
            /\ processed_posts' = processed_posts
            /\ file' = file
            /\ pc' = "loop"
            /\ i' = i + 1
      ]_vars

\* C16 witness: a post without keyword is passed over while processed_posts
\* and the file hold the record of another post
C16_Witness ==
    /\ step.result = "nomatch"
    /\ pc = "loop"
    /\ processed_posts # <<>>
    /\ file.exists
    /\ ~DictHas(processed_posts, step.key)

\* C17: when the write of the file fails during a commit (the file does not
\* hold what processed_posts holds), the iteration ends as after a write
\* that succeeded: processed_posts has the new record and the for loop goes
\* to the next post.  While the process runs a record of processed_posts
\* stays, its last_modified never decreasing, and no post is passed to
\* _send_notification whose last_modified does not exceed its record's.
C17_WriteFailure ==
    [][ /\ (/\ pc = "commit"
            /\ pc' # "down"
            /\ file'.data # JsonDump(processed_posts')) =>
               /\ DictHas(processed_posts', step.key)
               /\ DictGet(processed_posts', step.key) = step.last_modified
               /\ step'.result = "committed"
               /\ pc' = "loop"
               /\ i' = i + 1
        /\ pc' # "down" =>
               \A k \in Keys :
                   DictHas(processed_posts, k) =>
                       /\ DictHas(processed_posts', k)
                       /\ DictGet(processed_posts', k)
                             >= DictGet(processed_posts, k)
        /\ (pc = "loop" /\ pc' # "down" /\ step'.transport # "-") =>
               (DictHas(processed_posts, step'.key) =>
                   DictGet(processed_posts, step'.key) < step'.last_modified)
      ]_vars

\* C17 witness: a matching post is passed over on its record in
\* processed_posts while the file, whose write failed, holds no record of it
C17_Witness ==
    /\ step.result = "notnew"
    /\ DictHas(processed_posts, step.key)
    /\ ~DictHas(PersistedIn(file), step.key)

\* C18: the start of the process ends with run() under way, never with an
\* exception out of _load_processed_posts: processed_posts is what the file
\* holds, and the empty mapping when the file is missing, may not be read or
\* holds no JSON document.
C18_Load ==
    [][ (pc = "down" /\ pc' # "down") =>
            /\ pc' = "idle"
            /\ (~file.exists \/ ~file.readable \/ ~JsonValid(file.data)) =>
                  processed_posts' = <<>>
            /\ (file.exists /\ file.readable /\ JsonValid(file.data)) =>
                  processed_posts' = JsonLoad(file.data)
      ]_vars

\* C18 witness: the process has started with the empty mapping on a file
\* that holds a record and may not be read
C18_Witness ==
    /\ pc = "idle"
    /\ processed_posts = <<>>
    /\ file.exists
    /\ ~file.readable
    /\ JsonValid(file.data)
    /\ JsonLoad(file.data) # <<>>

\* C19, as claimed: a request sent to the feed has the parameter t in the
\* query of its URL and carries the no-cache headers.
C19_CacheBusting ==
    request # NoRequest =>
        /\ request.url.address = V2EX_API_URL.address
        /\ \E q \in 1..Len(request.url.query) :
              request.url.query[q].name = "t"
        /\ NoCacheHeaders \subseteq request.headers

\* C20, as claimed: when the record of a post is committed, or about to be,
\* the iteration has called a transport (bark or email) for the post,
\* whatever NOTIFICATION_TYPE is.
C20_DispatchBeforeCommit ==
    (pc = "commit" \/ step.result = "committed") =>
        /\ step.transport \in {"bark", "email"}
        /\ step.send \in {"ok", "fail"}

====
